---- MODULE Spec2Model ----
(***************************************************************************)
(* NYC public restrooms map (src/restroom-map.js, src/unnamed/part_000).   *)
(*                                                                         *)
(* Strings are sequences of one-character strings, so that join,           *)
(* toLowerCase and includes are computed and not assumed.  A missing       *)
(* property is the one-element sequence Undefined or Null, which is no     *)
(* text: its element is not a character.                                   *)
(*                                                                         *)
(* Every closure created by initializeMap has its own allRestroomData,     *)
(* currentFilters, isHeatmapVisible, heatmapData and map; the page (DOM,   *)
(* localStorage) is shared by all of them.  Per-closure state is a         *)
(* function over Inst.  A DOM event runs the listeners of all closures     *)
(* that registered one: nothing in the source removes a listener.          *)
(*                                                                         *)
(* src/unnamed/part_000 is the same page without token input and danger    *)
(* zones and with the statistics panel: its applyFilters ends with         *)
(* updateStatistics, and that is the applyFilters modelled here.           *)
(*                                                                         *)
(* A section with class hidden takes no clicks or input; keydown on the    *)
(* document and timers do not depend on it.                                *)
(***************************************************************************)
EXTENDS Integers, Sequences, FiniteSets, TLC

\* ------------------------------------------------------------------ bounds
\* MaxRecords: records in the geojson; MaxInst: initializeMap calls;
\* MaxTimers: pending generation timers of one closure; gridSize: the grid
\* is gridSize x gridSize (100 in the source, line 362); LatExtent, LngExtent:
\* the sides of the box of the grid, in 1/1000 degree; intensityScale: an
\* intensity is kept in steps of 1/intensityScale; MaxSearchLen: the text a
\* key is typed after has fewer characters than this
MaxRecords == 2
MaxInst == 3
MaxTimers == 2
gridSize == 2
LatExtent == 12
LngExtent == 24
intensityScale == 10
MaxSearchLen == 2

Inst == 1..MaxInst

\* ----------------------------------------------------------------- strings
Undefined == <<"undefined">>
Null == <<"null">>
Empty == << >>

\* The strings of the model are over ASCII without the grave accent, Latin-1
\* and the Greek alphabet.  Upper[k] has the lower-case form Lower[k]; every other
\* character of these is its own lower-case form.
Upper == <<"A","B","C","D","E","F","G","H","I","J","K","L","M","N","O",
           "P","Q","R","S","T","U","V","W","X","Y","Z","À","Á","Â","Ã",
           "Ä","Å","Æ","Ç","È","É","Ê","Ë","Ì","Í","Î","Ï","Ð","Ñ","Ò",
           "Ó","Ô","Õ","Ö","Ø","Ù","Ú","Û","Ü","Ý","Þ","Α","Β","Γ","Δ",
           "Ε","Ζ","Η","Θ","Ι","Κ","Λ","Μ","Ν","Ξ","Ο","Π","Ρ","Σ","Τ",
           "Υ","Φ","Χ","Ψ","Ω">>
Lower == <<"a","b","c","d","e","f","g","h","i","j","k","l","m","n","o",
           "p","q","r","s","t","u","v","w","x","y","z","à","á","â","ã",
           "ä","å","æ","ç","è","é","ê","ë","ì","í","î","ï","ð","ñ","ò",
           "ó","ô","õ","ö","ø","ù","ú","û","ü","ý","þ","α","β","γ","δ",
           "ε","ζ","η","θ","ι","κ","λ","μ","ν","ξ","ο","π","ρ","σ","τ",
           "υ","φ","χ","ψ","ω">>

RECURSIVE lowerCaseOf(_)
lowerCaseOf(k) ==
    IF k = 0 THEN << >> ELSE (Upper[k] :> Lower[k]) @@ lowerCaseOf(k - 1)
lowerCase == lowerCaseOf(Len(Upper))

toLowerCaseChar(c) == IF c \in DOMAIN lowerCase THEN lowerCase[c] ELSE c

\* the letters: the characters that have a case
cased(c) ==
    \/ c \in DOMAIN lowerCase
    \/ \E k \in 1..Len(Lower) : Lower[k] = c
    \/ c \in {"ª", "µ", "º", "ß", "ÿ", "ς"}

\* the characters that are passed over where a word's end is looked for;
\* the one between the diaeresis and the macron is the soft hyphen
caseIgnorable(c) ==
    c \in {"'", ".", ":", "^", "¨", "­", "¯", "´", "·", "¸"}

\* a capital sigma that ends a word: a letter is before it and none after it
finalSigma(s, k) ==
    /\ s[k] = "Σ"
    /\ \E j \in 1..(k - 1) :
          cased(s[j]) /\ \A m \in (j + 1)..(k - 1) : caseIgnorable(s[m])
    /\ ~\E j \in (k + 1)..Len(s) :
          cased(s[j]) /\ \A m \in (k + 1)..(j - 1) : caseIgnorable(s[m])

toLowerCase(s) ==
    [k \in 1..Len(s) |->
        IF finalSigma(s, k) THEN "ς" ELSE toLowerCaseChar(s[k])]

\* mutant: undefined and null are written out, as String(x) does
joinElemString(x) ==
    IF x = Undefined THEN <<"u","n","d","e","f","i","n","e","d">>
    ELSE IF x = Null THEN <<"n","u","l","l">>
    ELSE x

\* Array.prototype.join: undefined and null elements become the empty string
joinElem(x) == IF x = Undefined \/ x = Null THEN Empty ELSE x

join3(a, b, c) == joinElem(a) \o <<" ">> \o joinElem(b) \o <<" ">> \o joinElem(c)

\* String.prototype.includes
includes(text, s) ==
    \E k \in 0..(Len(text) - Len(s)) : SubSeq(text, k + 1, k + Len(s)) = s

\* the texts of the model
sAll == <<"a","l","l">>
sPark == <<"P","a","r","k">>
sLibrary == <<"L","i","b","r","a","r","y">>
sCentralPark == <<"C","e","n","t","r","a","l"," ","P","a","r","k">>
sNYPL == <<"N","Y","P","L">>
sOperational == <<"O","p","e","r","a","t","i","o","n","a","l">>
sNotOperational ==
    <<"N","o","t"," ","O","p","e","r","a","t","i","o","n","a","l">>
sFullyAccessible ==
    <<"F","u","l","l","y"," ","A","c","c","e","s","s","i","b","l","e">>
sPartiallyAccessible ==
    <<"P","a","r","t","i","a","l","l","y"," ","A","c","c","e","s","s","i","b","l","e">>
sMainLibrary == <<"M","a","i","n"," ","L","i","b","r","a","r","y">>
qLibrary == <<"l","i","b","r","a","r","y">>
qLib == <<"L","i","b">>
qR == <<"r">>
qUndefined == <<"u","n","d","e","f","i","n","e","d">>
qAcrossJoin == <<"k"," "," ","p">>

\* ------------------------------------------------------------------- state
VARIABLES
    script,              \* the script of the page: restroom-map.js or part_000
    dataset,             \* the content of 'Public Restrooms_20250720.geojson'
    storedToken,         \* localStorage['mapbox_access_token']
    tokenSectionHidden,  \* #tokenSection has class hidden
    mapSectionHidden,    \* #mapSection has class hidden
    submitListeners,     \* click listeners on #submitToken
    resetListeners,      \* click listeners on the first #resetToken
    nInst,               \* number of initializeMap calls so far
    phase,               \* per closure: none, created, fetching, loaded, failed
    listeners,           \* closures whose setupEventListeners ran, in order
    allRestroomData,     \* per closure
    currentFilters,      \* per closure
    shown,               \* per closure: data of the map source 'restrooms'
    isHeatmapVisible,    \* per closure
    heatmapData,         \* per closure
    heatLayer,           \* per closure: the map has 'heatmap-layer'
    pendingGen,          \* per closure: pending setTimeout generation callbacks
    uncaught,            \* per closure: a callback ended with an exception
    controls,            \* values of the search field and the three selects
    button,              \* #toggleHeatmap: textContent and disabled
    legendHidden,        \* #heatmapLegend has class hidden
    stats,               \* the four statistics texts
    reloadAsked          \* location.reload() was called and the page is still up

vars == <<script, dataset, storedToken, tokenSectionHidden, mapSectionHidden,
          submitListeners, resetListeners, nInst, phase, listeners,
          allRestroomData, currentFilters, shown, isHeatmapVisible,
          heatmapData, heatLayer, pendingGen, uncaught, controls, button,
          legendHidden, stats, reloadAsked>>

pageVars == <<storedToken, tokenSectionHidden, mapSectionHidden,
              submitListeners, resetListeners, nInst, reloadAsked>>
heatVars == <<isHeatmapVisible, heatmapData, heatLayer, pendingGen, uncaught,
              button, legendHidden>>

\* null, or an object holding an array
null == [isNull |-> TRUE, features |-> << >>]
some(features) == [isNull |-> FALSE, features |-> features]

NoToken == << >>

\* ------------------------------------------------------------ filter engine
defaultFilters ==
    [search |-> Empty, status |-> sAll, accessibility |-> sAll,
     locationType |-> sAll]

searchableText(props) ==
    toLowerCase(join3(props.facility_name, props.operator, props.location_type))

\* mutant: a facet is compared only when the record has one
filterCallbackMissingPasses(feature, filters) ==
    LET props == feature.properties
        has(x) == x # Undefined /\ x # Null
    IN
    /\ filters.search # Empty => includes(searchableText(props), filters.search)
    /\ filters.status # sAll /\ has(props.status) => props.status = filters.status
    /\ filters.accessibility # sAll /\ has(props.accessibility) =>
          props.accessibility = filters.accessibility
    /\ filters.locationType # sAll /\ has(props.location_type) =>
          props.location_type = filters.locationType

\* mutant: the search test is inverted
filterCallbackInvertedSearch(feature, filters) ==
    LET props == feature.properties IN
    /\ filters.search # Empty => ~includes(searchableText(props), filters.search)
    /\ filters.status # sAll => props.status = filters.status
    /\ filters.accessibility # sAll => props.accessibility = filters.accessibility
    /\ filters.locationType # sAll => props.location_type = filters.locationType

\* mutant: the status is compared without the test for "all"
filterCallbackNoSentinel(feature, filters) ==
    LET props == feature.properties IN
    /\ filters.search # Empty => includes(searchableText(props), filters.search)
    /\ props.status = filters.status
    /\ filters.accessibility # sAll => props.accessibility = filters.accessibility
    /\ filters.locationType # sAll => props.location_type = filters.locationType

\* the callback of allRestroomData.features.filter
filterCallback(feature, filters) ==
    LET props == feature.properties IN
    IF filters.search # Empty /\ ~includes(searchableText(props), filters.search)
    THEN FALSE
    ELSE IF filters.status # sAll /\ props.status # filters.status
    THEN FALSE
    ELSE IF filters.accessibility # sAll
            /\ props.accessibility # filters.accessibility
    THEN FALSE
    ELSE IF filters.locationType # sAll
            /\ props.location_type # filters.locationType
    THEN FALSE
    ELSE TRUE

\* mutant: kept elements are put in front of the result
RECURSIVE arrayFilterReversed(_, _)
arrayFilterReversed(features, filters) ==
    IF features = << >> THEN << >>
    ELSE LET rest == arrayFilterReversed(Tail(features), filters) IN
         IF filterCallback(Head(features), filters)
         THEN rest \o <<Head(features)>>
         ELSE rest

\* mutant: the last element is never visited
RECURSIVE arrayFilterSkipsLast(_, _)
arrayFilterSkipsLast(features, filters) ==
    IF Len(features) <= 1 THEN << >>
    ELSE LET rest == arrayFilterSkipsLast(Tail(features), filters) IN
         IF filterCallback(Head(features), filters)
         THEN <<Head(features)>> \o rest
         ELSE rest

\* Array.prototype.filter with filterCallback
RECURSIVE arrayFilter(_, _)
arrayFilter(features, filters) ==
    IF features = << >> THEN << >>
    ELSE LET rest == arrayFilter(Tail(features), filters) IN
         IF filterCallback(Head(features), filters)
         THEN <<Head(features)>> \o rest
         ELSE rest

\* data.filter(f => f.properties[key] === value).length
count(data, key, value) ==
    Cardinality({k \in 1..Len(data) : data[k].properties[key] = value})

\* mutant: an empty array counts as no argument
updateStatisticsEmptyFalsy(features, all) ==
    LET data == IF ~features.isNull /\ features.features # << >>
                THEN features.features ELSE all IN
    [total |-> Len(data),
     operationalCount |-> count(data, "status", sOperational),
     accessibleCount |-> count(data, "accessibility", sFullyAccessible),
     parkCount |-> count(data, "location_type", sPark)]

\* features = null means no argument; an array, the empty one too, is truthy
updateStatistics(features, all) ==
    LET data == IF ~features.isNull THEN features.features ELSE all IN
    [total |-> Len(data),
     operationalCount |-> count(data, "status", sOperational),
     accessibleCount |-> count(data, "accessibility", sFullyAccessible),
     parkCount |-> count(data, "location_type", sPark)]

\* applyFilters, for a closure whose allRestroomData is loaded: the data
\* pushed to the source 'restrooms' and the statistics that part_000 writes
applyFilters(all, filters) ==
    LET filteredFeatures == arrayFilter(all, filters) IN
    [setData |-> filteredFeatures,
     statistics |-> updateStatistics(some(filteredFeatures), all)]

\* ------------------------------------------------------------ coverage grid
\* Coordinates are integers in 1/(1000 * gridSize) degree, the unit in which
\* a side of the box divided by gridSize is a whole number whatever the side
\* is.  (lat2 - lat1) * 111000 is then (lat2 - lat1) * 111 in 1/gridSize
\* metre: distances are in 1/gridSize metre and are kept squared (Math.sqrt
\* is monotone).  The box of the model is the south-west corner of the box of
\* the source, LatExtent by LngExtent thousandths of a degree (455 by 600 in
\* the source), so that the squares stay below 2^31.
thousandth == gridSize

nycBounds ==
    [north |-> (40470 + LatExtent) * thousandth, south |-> 40470 * thousandth,
     east |-> (-74280 + LngExtent) * thousandth, west |-> -74280 * thousandth]

\* lines 363-364; the quotients are exact in the unit of the model
latStep == (nycBounds.north - nycBounds.south) \div gridSize
lngStep == (nycBounds.east - nycBounds.west) \div gridSize

Infinity == -1

pt(lng, lat) == [tag |-> "pt", lng |-> lng, lat |-> lat]
nullCoords == [tag |-> "null", lng |-> 0, lat |-> 0]
nonFinite == [tag |-> "nonfinite", lng |-> 0, lat |-> 0]

\* mutant: the difference of the longitudes is left out
calculateFastDistanceSqLatOnly(lat1, lng1, lat2, lng2) ==
    LET dLat == (lat2 - lat1) * 111 IN dLat * dLat

calculateFastDistanceSq(lat1, lng1, lat2, lng2) ==
    LET dLat == (lat2 - lat1) * 111
        dLng == (lng2 - lng1) * 85
    IN  dLat * dLat + dLng * dLng

\* distance < minDistance, with minDistance possibly Infinity
lessThan(distance, minDistance) ==
    minDistance = Infinity \/ distance < minDistance

\* the for-of loop over restroomCoords: the running minimum; threw when
\* destructuring a coords that is null or undefined raises a TypeError
RECURSIVE nearestScan(_, _, _, _)
nearestScan(restroomCoords, lat, lng, minDistance) ==
    IF restroomCoords = << >> THEN [threw |-> FALSE, minDistance |-> minDistance]
    ELSE LET coords == Head(restroomCoords) IN
         IF coords.tag = "null" THEN [threw |-> TRUE, minDistance |-> minDistance]
         ELSE IF coords.tag = "nonfinite"
         THEN nearestScan(Tail(restroomCoords), lat, lng, minDistance)
         ELSE LET distance ==
                     calculateFastDistanceSq(lat, lng, coords.lat, coords.lng)
              IN  nearestScan(Tail(restroomCoords), lat, lng,
                              IF lessThan(distance, minDistance)
                              THEN distance ELSE minDistance)

\* natural numbers beyond 32 bits: digits to base 100, the lowest first
RECURSIVE mulSmall(_, _, _)
mulSmall(a, m, carry) ==
    IF a = << >>
    THEN IF carry = 0 THEN << >>
         ELSE <<carry % 100>> \o mulSmall(<< >>, m, carry \div 100)
    ELSE LET x == Head(a) * m + carry IN
         <<x % 100>> \o mulSmall(Tail(a), m, x \div 100)

\* a * m^n
RECURSIVE timesPower(_, _, _)
timesPower(a, m, n) ==
    IF n = 0 THEN a ELSE timesPower(mulSmall(a, m, 0), m, n - 1)

RECURSIVE strip(_)
strip(a) ==
    IF a # << >> /\ a[Len(a)] = 0 THEN strip(SubSeq(a, 1, Len(a) - 1)) ELSE a

lessOrEqual(a, b) ==
    LET x == strip(a)
        y == strip(b)
    IN  IF Len(x) # Len(y) THEN Len(x) < Len(y)
        ELSE \/ x = y
             \/ \E k \in 1..Len(x) :
                   /\ x[k] < y[k]
                   /\ \A j \in (k + 1)..Len(x) : x[j] = y[j]

\* line 392: 1000 metres, in 1/gridSize metre
maxDistance == 1000 * gridSize

\* mutant: the cutoff is 2 km
ratioSqTwoKm(minDistanceSq) ==
    IF minDistanceSq = Infinity \/ minDistanceSq >= 4 * maxDistance * maxDistance
    THEN maxDistance * maxDistance
    ELSE minDistanceSq \div 4

\* mutant: the ratio is not cut off at 1
ratioSqNoMin(minDistanceSq) == minDistanceSq

\* Math.min(minDistance / maxDistance, 1): the square of the ratio, in
\* 1/(maxDistance * maxDistance); Infinity / 1000 is Infinity
ratioSq(minDistanceSq) ==
    IF minDistanceSq = Infinity \/ minDistanceSq >= maxDistance * maxDistance
    THEN maxDistance * maxDistance
    ELSE minDistanceSq

\* t^10 * maxDistance^6, for the steps t up to 1 and beyond
scaled(t) == timesPower(timesPower(<<1>>, t, 10), maxDistance, 6)
RECURSIVE scaledUpTo(_)
scaledUpTo(t) ==
    IF t = 0 THEN 0 :> scaled(0) ELSE scaledUpTo(t - 1) @@ (t :> scaled(t))
scaledSteps == scaledUpTo(2 * intensityScale + 1)
scaledStep(t) == IF t \in DOMAIN scaledSteps THEN scaledSteps[t] ELSE scaled(t)

\* the largest t with t / intensityScale <= x^0.6, for x * x = q / maxDistance^2:
\* t^10 * maxDistance^6 <= q^3 * intensityScale^10 = cube
floorPow(q, cube) ==
    LET top == intensityScale * (1 + q \div (maxDistance * maxDistance)) IN
    CHOOSE t \in 0..top :
        lessOrEqual(scaledStep(t), cube) /\ ~lessOrEqual(scaledStep(t + 1), cube)

\* mutant: the scaling turns the order round
mathPowDecreasing(q) ==
    LET cube == timesPower(timesPower(<<1>>, q, 3), intensityScale, 10)
        t == floorPow(q, cube)
    IN  [floor |-> IF t > intensityScale THEN 0 ELSE intensityScale - t,
         exact |-> lessOrEqual(cube, scaledStep(t))]

\* Math.pow(x, 0.6) of a ratio x >= 0 given by its square q: the value in
\* 1/intensityScale, rounded down, and whether nothing was rounded off
mathPow(q) ==
    IF q = Infinity THEN [floor |-> Infinity, exact |-> TRUE]
    ELSE LET cube == timesPower(timesPower(<<1>>, q, 3), intensityScale, 10)
             t == floorPow(q, cube)
         IN  [floor |-> t, exact |-> lessOrEqual(cube, scaledStep(t))]

\* lines 392-396
intensity(minDistanceSq) == mathPow(ratioSq(minDistanceSq))

\* mutant: the grid is walked column by column
cellLatJMajor(n) == nycBounds.south + (n % gridSize) * latStep

cellLat(n) == nycBounds.south + (n \div gridSize) * latStep
cellLng(n) == nycBounds.west + (n % gridSize) * lngStep

\* generateCoverageHeatmap for a loaded closure: the heatmapPoints in push
\* order (cell n is i = n \div gridSize, j = n % gridSize), or threw;
\* minDistanceSq is the minDistance the intensity of the point was made of
generateCoverageHeatmap(features) ==
    LET restroomCoords ==
            [k \in 1..Len(features) |-> features[k].geometry.coordinates]
        scan == [n \in 0..(gridSize * gridSize - 1) |->
                    nearestScan(restroomCoords, cellLat(n), cellLng(n), Infinity)]
    IN  IF \E n \in DOMAIN scan : scan[n].threw
        THEN [threw |-> TRUE, points |-> << >>]
        ELSE [threw |-> FALSE,
              points |-> [n \in 1..(gridSize * gridSize) |->
                            [lng |-> cellLng(n - 1), lat |-> cellLat(n - 1),
                             intensity |-> intensity(scan[n - 1].minDistance),
                             minDistanceSq |-> scan[n - 1].minDistance]]]

\* ------------------------------------------------------------ the geojson
feature(name, operator, locationType, status, accessibility, coordinates) ==
    [properties |-> [facility_name |-> name, operator |-> operator,
                     location_type |-> locationType, status |-> status,
                     accessibility |-> accessibility],
     geometry |-> [coordinates |-> coordinates]]

recCentralPark ==
    feature(sCentralPark, Undefined, sPark, sOperational, sFullyAccessible,
            pt(nycBounds.west, nycBounds.south))
recMainLibrary ==
    feature(sMainLibrary, sNYPL, sLibrary, sNotOperational,
            sPartiallyAccessible,
            pt(nycBounds.west + lngStep, nycBounds.south + 3 * thousandth))
recBare == feature(Null, Undefined, Undefined, Undefined, Undefined, nonFinite)
recNullCoords ==
    feature(sCentralPark, Undefined, sPark, sOperational, sFullyAccessible,
            nullCoords)

SeqsUpTo(S, n) == UNION {[1..m -> S] : m \in 0..n}

FilterDatasets == SeqsUpTo({recCentralPark, recMainLibrary, recBare}, MaxRecords)
AppDatasets ==
    {<< >>, <<recCentralPark>>, <<recCentralPark, recNullCoords>>,
     <<recMainLibrary, recBare>>}

HeatDatasets ==
    {<< >>, <<recCentralPark>>, <<recMainLibrary>>, <<recBare>>,
     <<recNullCoords>>, <<recCentralPark, recMainLibrary>>,
     <<recBare, recCentralPark>>, <<recMainLibrary, recBare>>,
     <<recCentralPark, recNullCoords>>}

\* the grids of the data sets of the model, computed once
RECURSIVE gridsOf(_)
gridsOf(datasets) ==
    IF datasets = {} THEN << >>
    ELSE LET features == CHOOSE d \in datasets : TRUE IN
         (features :> generateCoverageHeatmap(features))
             @@ gridsOf(datasets \ {features})
grids == gridsOf(AppDatasets \cup HeatDatasets)
generated(features) ==
    IF features \in DOMAIN grids THEN grids[features]
    ELSE generateCoverageHeatmap(features)

QueryDatasets ==
    {<< >>, <<recCentralPark, recMainLibrary>>, <<recBare, recCentralPark>>}

SearchInputs == {Empty, qR, qLib, qLibrary, qUndefined, qAcrossJoin}
StatusOptions == {sAll, sOperational}
AccessibilityOptions == {sAll, sFullyAccessible}
LocationTypeOptions == {sAll, sPark, sLibrary}
Keys == {<<"f">>, <<"r">>, <<"R">>, <<"E","s","c","a","p","e">>, <<"x">>}
AppKeys == {<<"f">>, <<"r">>, <<"E","s","c","a","p","e">>}
TypedKeys == {<<"a">>, <<"L">>, <<"É">>, <<"r">>, <<"F">>}

\* ---------------------------------------------------------------- the page
InListeners(i) == \E k \in 1..Len(listeners) : listeners[k] = i
lastListener == listeners[Len(listeners)]

\* The repository has two scripts for the page.  restroom-map.js asks for a
\* token and has the danger zones, and writes no statistics: its applyFilters
\* ends with setData and its loadRestroomData does not call updateStatistics.
\* part_000 has its token in the text, makes its one map at once and writes
\* the statistics; it has no token section and no danger zones.
tokenScript == "restroom-map.js"
statisticsScript == "part_000"
writesStatistics == script = statisticsScript

\* restroomMapApp of part_000: the page as it is after the script ran
PageInitStatistics ==
    /\ script = statisticsScript
    /\ storedToken = NoToken
    /\ tokenSectionHidden = TRUE
    /\ mapSectionHidden = FALSE
    /\ submitListeners = 0
    /\ resetListeners = 0
    /\ nInst = 1
    /\ phase = [i \in Inst |-> IF i = 1 THEN "created" ELSE "none"]
    /\ listeners = << >>
    /\ allRestroomData = [i \in Inst |-> null]
    /\ currentFilters = [i \in Inst |-> defaultFilters]
    /\ shown = [i \in Inst |-> << >>]
    /\ isHeatmapVisible = [i \in Inst |-> FALSE]
    /\ heatmapData = [i \in Inst |-> null]
    /\ heatLayer = [i \in Inst |-> FALSE]
    /\ pendingGen = [i \in Inst |-> 0]
    /\ uncaught = [i \in Inst |-> FALSE]
    /\ controls = defaultFilters
    /\ button = [textContent |-> "Show", disabled |-> FALSE]
    /\ legendHidden = TRUE
    /\ stats = [total |-> 0, operationalCount |-> 0, accessibleCount |-> 0,
                parkCount |-> 0]
    /\ reloadAsked = FALSE

\* restroomMapApp of restroom-map.js: the page as it is after the script ran,
\* with a token in localStorage (initializeMap called) or without
\* (setupTokenInput called)
PageInit(hasToken) ==
    /\ script = tokenScript
    /\ storedToken = IF hasToken THEN <<"p","k",".","a">> ELSE NoToken
    /\ tokenSectionHidden = hasToken
    /\ mapSectionHidden = ~hasToken
    /\ submitListeners = IF hasToken THEN 0 ELSE 1
    /\ resetListeners = 0
    /\ nInst = IF hasToken THEN 1 ELSE 0
    /\ phase = [i \in Inst |-> IF hasToken /\ i = 1 THEN "created" ELSE "none"]
    /\ listeners = << >>
    /\ allRestroomData = [i \in Inst |-> null]
    /\ currentFilters = [i \in Inst |-> defaultFilters]
    /\ shown = [i \in Inst |-> << >>]
    /\ isHeatmapVisible = [i \in Inst |-> FALSE]
    /\ heatmapData = [i \in Inst |-> null]
    /\ heatLayer = [i \in Inst |-> FALSE]
    /\ pendingGen = [i \in Inst |-> 0]
    /\ uncaught = [i \in Inst |-> FALSE]
    /\ controls = defaultFilters
    /\ button = [textContent |-> "Show", disabled |-> FALSE]
    /\ legendHidden = TRUE
    /\ stats = [total |-> 0, operationalCount |-> 0, accessibleCount |-> 0,
                parkCount |-> 0]
    /\ reloadAsked = FALSE

\* map.on('load'): loadRestroomData starts the fetch; in restroom-map.js
\* addTokenControls adds a 'Change Token' button and a click listener on the
\* first #resetToken
MapLoad(i) ==
    /\ phase[i] = "created"
    /\ phase' = [phase EXCEPT ![i] = "fetching"]
    /\ resetListeners' =
          IF script = tokenScript /\ storedToken # NoToken
          THEN resetListeners + 1 ELSE resetListeners
    /\ UNCHANGED <<script, dataset, storedToken, tokenSectionHidden,
                   mapSectionHidden, submitListeners, nInst, reloadAsked,
                   listeners, allRestroomData,
                   currentFilters, shown, controls, stats>>
    /\ UNCHANGED heatVars

\* the second .then of loadRestroomData; part_000 calls updateStatistics()
FetchDone(i) ==
    /\ phase[i] = "fetching"
    /\ phase' = [phase EXCEPT ![i] = "loaded"]
    /\ allRestroomData' = [allRestroomData EXCEPT ![i] = some(dataset)]
    /\ shown' = [shown EXCEPT ![i] = dataset]
    /\ listeners' = Append(listeners, i)
    /\ stats' = IF writesStatistics THEN updateStatistics(null, dataset)
                ELSE stats
    /\ UNCHANGED <<script, dataset, currentFilters, controls>>
    /\ UNCHANGED pageVars
    /\ UNCHANGED heatVars

\* the .catch of loadRestroomData
FetchFail(i) ==
    /\ phase[i] = "fetching"
    /\ phase' = [phase EXCEPT ![i] = "failed"]
    /\ UNCHANGED <<script, dataset, listeners, allRestroomData, currentFilters, shown,
                   controls, stats>>
    /\ UNCHANGED pageVars
    /\ UNCHANGED heatVars

\* ---------------------------------------------------------- filter events
\* One DOM event runs the handler of every closure that registered one, in
\* registration order; each handler writes its own currentFilters and pushes
\* to its own map; applyFilters of part_000 writes the statistics texts too.
\* newFilters[i] is currentFilters of closure i as its handler has written it.
FilterEvent(newFilters) ==
    /\ currentFilters' =
          [i \in Inst |-> IF InListeners(i) THEN newFilters[i]
                          ELSE currentFilters[i]]
    /\ shown' =
          [i \in Inst |->
              IF InListeners(i)
              THEN applyFilters(allRestroomData[i].features, newFilters[i]).setData
              ELSE shown[i]]
    /\ stats' =
          IF listeners = << >> \/ ~writesStatistics THEN stats
          ELSE applyFilters(allRestroomData[lastListener].features,
                            newFilters[lastListener]).statistics

\* mutant: the store is cut down to the records that pass the filters
filterFrameStoreFiltered ==
    /\ allRestroomData' =
          [i \in Inst |-> IF InListeners(i) THEN some(shown[i]')
                          ELSE allRestroomData[i]]
    /\ UNCHANGED <<script, dataset, phase, listeners>>
    /\ UNCHANGED pageVars
    /\ UNCHANGED heatVars

filterFrame ==
    /\ UNCHANGED <<script, dataset, phase, listeners, allRestroomData>>
    /\ UNCHANGED pageVars
    /\ UNCHANGED heatVars

\* mutant: the text is taken as it was entered
SearchInputNoLowerCase(value) ==
    /\ ~mapSectionHidden
    /\ controls' = [controls EXCEPT !.search = value]
    /\ FilterEvent([i \in Inst |-> [currentFilters[i] EXCEPT !.search = value]])
    /\ filterFrame

\* 'input' on #searchFacility
SearchInput(value) ==
    /\ ~mapSectionHidden
    /\ controls' = [controls EXCEPT !.search = value]
    /\ FilterEvent([i \in Inst |-> [currentFilters[i] EXCEPT !.search = toLowerCase(value)]])
    /\ filterFrame

\* 'change' on #statusFilter
StatusChange(value) ==
    /\ ~mapSectionHidden
    /\ controls' = [controls EXCEPT !.status = value]
    /\ FilterEvent([i \in Inst |-> [currentFilters[i] EXCEPT !.status = value]])
    /\ filterFrame

\* 'change' on #accessibilityFilter
AccessibilityChange(value) ==
    /\ ~mapSectionHidden
    /\ controls' = [controls EXCEPT !.accessibility = value]
    /\ FilterEvent([i \in Inst |-> [currentFilters[i] EXCEPT !.accessibility = value]])
    /\ filterFrame

\* 'change' on #locationTypeFilter
LocationTypeChange(value) ==
    /\ ~mapSectionHidden
    /\ controls' = [controls EXCEPT !.locationType = value]
    /\ FilterEvent([i \in Inst |-> [currentFilters[i] EXCEPT !.locationType = value]])
    /\ filterFrame

resetAllFilters ==
    /\ listeners # << >>
    /\ controls' = defaultFilters
    /\ FilterEvent([i \in Inst |-> defaultFilters])
    /\ filterFrame

\* 'click' on #resetAllFilters
ResetClick ==
    /\ ~mapSectionHidden
    /\ resetAllFilters

\* mutant: escape empties the search text and does not filter again
handleKeyboardShortcutsNoApply(key) ==
    LET k == toLowerCase(key) IN
    IF k = <<"r">> /\ listeners # << >> THEN resetAllFilters
    ELSE IF k = <<"e","s","c","a","p","e">> /\ listeners # << >>
    THEN /\ controls' = [controls EXCEPT !.search = Empty]
         /\ currentFilters' =
               [i \in Inst |-> IF InListeners(i)
                               THEN [currentFilters[i] EXCEPT !.search = Empty]
                               ELSE currentFilters[i]]
         /\ UNCHANGED <<shown, stats>>
         /\ filterFrame
    ELSE UNCHANGED vars

\* mutant: escape sets all four filters back
handleKeyboardShortcutsEscapeResets(key) ==
    LET k == toLowerCase(key) IN
    IF k \in {<<"r">>, <<"e","s","c","a","p","e">>} /\ listeners # << >>
    THEN resetAllFilters
    ELSE UNCHANGED vars

\* 'keydown' on document
handleKeyboardShortcuts(key) ==
    LET k == toLowerCase(key) IN
    IF k = <<"r">> /\ listeners # << >> THEN resetAllFilters
    ELSE IF k = <<"e","s","c","a","p","e">> /\ listeners # << >>
    THEN /\ controls' = [controls EXCEPT !.search = Empty]
         /\ FilterEvent([i \in Inst |-> [currentFilters[i] EXCEPT !.search = Empty]])
         /\ filterFrame
    ELSE UNCHANGED vars

KeyDown(key) == handleKeyboardShortcuts(key)

\* the key of one character is pressed with the focus in #searchFacility:
\* its keydown reaches the listeners on document first; a handler that
\* calls preventDefault keeps the character out of the field and no 'input'
\* follows, otherwise the character is put at the end of the text and
\* 'input' is dispatched
TypeKey(key) ==
    /\ ~mapSectionHidden
    /\ IF listeners # << >> /\ toLowerCase(key) \in {<<"f">>, <<"r">>}
       THEN handleKeyboardShortcuts(key)
       ELSE /\ Len(controls.search) < MaxSearchLen
            /\ SearchInput(controls.search \o key)

\* ------------------------------------------------------------ danger zones
removeHeatmapLayer(i) == FALSE

\* the layer after addHeatmapLayer: nothing is added without heatmapData
addHeatmapLayer(i, data) == IF data.isNull THEN heatLayer[i] ELSE TRUE

\* what one closure's toggleHeatmap writes to the button and the legend
toggleHeatmapDom(i, dom) ==
    IF ~isHeatmapVisible[i]
    THEN IF heatmapData[i].isNull
         THEN [dom EXCEPT !.textContent = "Generating", !.disabled = TRUE]
         ELSE [dom EXCEPT !.textContent = "Hide", !.legendHidden = FALSE]
    ELSE [dom EXCEPT !.textContent = "Show", !.legendHidden = TRUE]

RECURSIVE toggleDom(_, _)
toggleDom(handlers, dom) ==
    IF handlers = << >> THEN dom
    ELSE toggleDom(Tail(handlers), toggleHeatmapDom(Head(handlers), dom))

schedules(i) == InListeners(i) /\ ~isHeatmapVisible[i] /\ heatmapData[i].isNull

\* 'click' on #toggleHeatmap: a disabled button dispatches no click
toggleHeatmap ==
    /\ script = tokenScript
    /\ ~mapSectionHidden
    /\ ~button.disabled
    /\ listeners # << >>
    /\ \A i \in Inst : schedules(i) => pendingGen[i] < MaxTimers
    /\ pendingGen' =
          [i \in Inst |-> IF schedules(i) THEN pendingGen[i] + 1 ELSE pendingGen[i]]
    /\ isHeatmapVisible' =
          [i \in Inst |->
              IF ~InListeners(i) \/ schedules(i) THEN isHeatmapVisible[i]
              ELSE ~isHeatmapVisible[i]]
    /\ heatLayer' =
          [i \in Inst |->
              IF ~InListeners(i) \/ schedules(i) THEN heatLayer[i]
              ELSE IF ~isHeatmapVisible[i] THEN addHeatmapLayer(i, heatmapData[i])
              ELSE removeHeatmapLayer(i)]
    /\ LET dom == toggleDom(listeners,
                            [textContent |-> button.textContent,
                             disabled |-> button.disabled,
                             legendHidden |-> legendHidden])
       IN  /\ button' = [textContent |-> dom.textContent, disabled |-> dom.disabled]
           /\ legendHidden' = dom.legendHidden
    /\ UNCHANGED <<script, dataset, phase, listeners, allRestroomData, currentFilters,
                   shown, controls, stats, heatmapData, uncaught>>
    /\ UNCHANGED pageVars

\* mutant: the grid is made of the records that pass the filters
GenerationTimeoutFiltered(i) ==
    /\ pendingGen[i] > 0
    /\ pendingGen' = [pendingGen EXCEPT ![i] = @ - 1]
    /\ LET grid == generateCoverageHeatmap(shown[i]) IN
       IF grid.threw
       THEN /\ uncaught' = [uncaught EXCEPT ![i] = TRUE]
            /\ UNCHANGED <<heatmapData, heatLayer, isHeatmapVisible, button,
                           legendHidden>>
       ELSE /\ heatmapData' =
                  [heatmapData EXCEPT ![i] = some(grid.points)]
            /\ heatLayer' =
                  [heatLayer EXCEPT ![i] = addHeatmapLayer(i, some(grid.points))]
            /\ isHeatmapVisible' = [isHeatmapVisible EXCEPT ![i] = TRUE]
            /\ button' = [textContent |-> "Hide", disabled |-> FALSE]
            /\ legendHidden' = FALSE
            /\ UNCHANGED uncaught
    /\ UNCHANGED <<script, dataset, phase, listeners, allRestroomData, currentFilters,
                   shown, controls, stats>>
    /\ UNCHANGED pageVars

\* the setTimeout callback of toggleHeatmap; an exception of
\* generateCoverageHeatmap ends the callback before heatmapData is assigned
GenerationTimeout(i) ==
    /\ pendingGen[i] > 0
    /\ pendingGen' = [pendingGen EXCEPT ![i] = @ - 1]
    /\ LET grid == generated(allRestroomData[i].features) IN
       IF grid.threw
       THEN /\ uncaught' = [uncaught EXCEPT ![i] = TRUE]
            /\ UNCHANGED <<heatmapData, heatLayer, isHeatmapVisible, button,
                           legendHidden>>
       ELSE /\ heatmapData' =
                  [heatmapData EXCEPT ![i] = some(grid.points)]
            /\ heatLayer' =
                  [heatLayer EXCEPT ![i] = addHeatmapLayer(i, some(grid.points))]
            /\ isHeatmapVisible' = [isHeatmapVisible EXCEPT ![i] = TRUE]
            /\ button' = [textContent |-> "Hide", disabled |-> FALSE]
            /\ legendHidden' = FALSE
            /\ UNCHANGED uncaught
    /\ UNCHANGED <<script, dataset, phase, listeners, allRestroomData, currentFilters,
                   shown, controls, stats>>
    /\ UNCHANGED pageVars

\* ------------------------------------------------------------------ token
\* the white space and the line terminators that String.prototype.trim takes
\* off, as far as a string of the model can hold them: space, tab, line feed,
\* carriage return, form feed, vertical tab, no-break space, U+FEFF and U+1680
WhiteSpace == {" ", "\t", "\n", "\r", "\f", "", " ", "﻿", " "}

RECURSIVE trimStart(_)
trimStart(s) ==
    IF s # << >> /\ Head(s) \in WhiteSpace THEN trimStart(Tail(s)) ELSE s

RECURSIVE trimEnd(_)
trimEnd(s) ==
    IF s # << >> /\ s[Len(s)] \in WhiteSpace
    THEN trimEnd(SubSeq(s, 1, Len(s) - 1)) ELSE s

trim(s) == trimEnd(trimStart(s))

startsWith(s, prefix) ==
    Len(s) >= Len(prefix) /\ SubSeq(s, 1, Len(prefix)) = prefix

validToken(value) ==
    trim(value) # << >> /\ startsWith(trim(value), <<"p","k",".">>)

TokenInputs ==
    {<< >>, <<" ">>, <<"s","k",".","a">>, <<"p","k",".","a">>,
     <<" ","p","k",".","b"," ">>, <<"\t","p","k",".","a","\n">>}

\* initializeMap, called calls times: each call makes a new closure
initializeMap(calls) ==
    /\ nInst + calls <= MaxInst
    /\ nInst' = nInst + calls
    /\ phase' = [i \in Inst |->
                    IF i > nInst /\ i <= nInst + calls THEN "created" ELSE phase[i]]

\* clicks 'click' events on #submitToken, each running every listener that
\* setupTokenInput added
submitClicks(value, clicks) ==
    IF validToken(value) /\ clicks * submitListeners > 0
    THEN /\ storedToken' = trim(value)
         /\ tokenSectionHidden' = TRUE
         /\ mapSectionHidden' = FALSE
         /\ initializeMap(clicks * submitListeners)
         /\ UNCHANGED <<submitListeners, resetListeners, reloadAsked>>
    ELSE /\ UNCHANGED pageVars
         /\ UNCHANGED phase

tokenFrame ==
    /\ UNCHANGED <<script, dataset, listeners, allRestroomData, currentFilters, shown,
                   controls, stats>>
    /\ UNCHANGED heatVars

\* the user clicks #submitToken with value in #mapboxToken
SubmitClick(value) ==
    /\ ~tokenSectionHidden
    /\ submitListeners > 0
    /\ submitClicks(value, 1)
    /\ tokenFrame

\* Enter in #mapboxToken: every keypress listener calls submitButton.click()
SubmitEnter(value) ==
    /\ ~tokenSectionHidden
    /\ submitListeners > 0
    /\ submitClicks(value, submitListeners)
    /\ tokenFrame

\* 'click' on the first #resetToken; confirmed of its listeners get a yes
ChangeTokenClick(confirmed) ==
    /\ ~mapSectionHidden
    /\ resetListeners > 0
    /\ confirmed \in 0..resetListeners
    /\ submitListeners + confirmed <= MaxInst
    /\ IF confirmed > 0
       THEN /\ storedToken' = NoToken
            /\ mapSectionHidden' = TRUE
            /\ tokenSectionHidden' = FALSE
            /\ submitListeners' = submitListeners + confirmed
       ELSE UNCHANGED <<storedToken, mapSectionHidden, tokenSectionHidden,
                        submitListeners>>
    /\ UNCHANGED <<resetListeners, nInst, phase, reloadAsked>>
    /\ tokenFrame

\* window.resetMapboxToken, which every initializeMap puts on window: the
\* token is removed and a reload of the page is asked for
resetMapboxToken ==
    /\ script = tokenScript
    /\ nInst > 0
    /\ storedToken' = NoToken
    /\ reloadAsked' = TRUE
    /\ UNCHANGED <<tokenSectionHidden, mapSectionHidden, submitListeners,
                   resetListeners, nInst, phase>>
    /\ tokenFrame

\* the reload that location.reload() asked for: the page is left, with its
\* closures, listeners and timers, and restroomMapApp runs on a new one
Reload ==
    /\ reloadAsked
    /\ reloadAsked' = FALSE
    /\ tokenSectionHidden' = (storedToken # NoToken)
    /\ mapSectionHidden' = (storedToken = NoToken)
    /\ submitListeners' = IF storedToken # NoToken THEN 0 ELSE 1
    /\ resetListeners' = 0
    /\ nInst' = IF storedToken # NoToken THEN 1 ELSE 0
    /\ phase' = [i \in Inst |->
                    IF storedToken # NoToken /\ i = 1 THEN "created" ELSE "none"]
    /\ listeners' = << >>
    /\ allRestroomData' = [i \in Inst |-> null]
    /\ currentFilters' = [i \in Inst |-> defaultFilters]
    /\ shown' = [i \in Inst |-> << >>]
    /\ isHeatmapVisible' = [i \in Inst |-> FALSE]
    /\ heatmapData' = [i \in Inst |-> null]
    /\ heatLayer' = [i \in Inst |-> FALSE]
    /\ pendingGen' = [i \in Inst |-> 0]
    /\ uncaught' = [i \in Inst |-> FALSE]
    /\ controls' = defaultFilters
    /\ button' = [textContent |-> "Show", disabled |-> FALSE]
    /\ legendHidden' = TRUE
    /\ stats' = [total |-> 0, operationalCount |-> 0, accessibleCount |-> 0,
                 parkCount |-> 0]
    /\ UNCHANGED <<script, dataset, storedToken>>

\* ---------------------------------------------------------- specifications
\* the filter controls of one map, over every data set of FilterDatasets
InitFilter ==
    /\ dataset \in FilterDatasets
    /\ PageInit(TRUE)

NextFilter ==
    \/ \E i \in Inst : MapLoad(i)
    \/ \E i \in Inst : FetchDone(i)
    \/ \E v \in SearchInputs : SearchInput(v)
    \/ \E v \in StatusOptions : StatusChange(v)
    \/ \E v \in AccessibilityOptions : AccessibilityChange(v)
    \/ \E v \in LocationTypeOptions : LocationTypeChange(v)
    \/ ResetClick
    \/ \E key \in Keys : KeyDown(key)

SpecFilter == InitFilter /\ [][NextFilter]_vars

\* the filter controls and the statistics of the page of part_000
InitStatistics ==
    /\ dataset \in FilterDatasets
    /\ PageInitStatistics

SpecStatistics == InitStatistics /\ [][NextFilter]_vars

\* the whole page
Init ==
    /\ dataset \in AppDatasets
    /\ \E hasToken \in BOOLEAN : PageInit(hasToken)

Next ==
    \/ \E i \in Inst : MapLoad(i)
    \/ \E i \in Inst : FetchDone(i)
    \/ \E i \in Inst : FetchFail(i)
    \/ SearchInput(qLib)
    \/ ResetClick
    \/ \E key \in AppKeys : KeyDown(key)
    \/ toggleHeatmap
    \/ \E i \in Inst : GenerationTimeout(i)
    \/ \E v \in TokenInputs : SubmitClick(v)
    \/ \E v \in TokenInputs : SubmitEnter(v)
    \/ \E n \in 0..MaxInst : ChangeTokenClick(n)
    \/ resetMapboxToken
    \/ Reload

Spec == Init /\ [][Next]_vars

\* the danger zones of one map, with the filter controls in use
InitHeat ==
    /\ dataset \in HeatDatasets
    /\ PageInit(TRUE)

NextHeat ==
    \/ \E i \in Inst : MapLoad(i)
    \/ \E i \in Inst : FetchDone(i)
    \/ \E v \in {Empty, qLib} : SearchInput(v)
    \/ \E v \in {sAll, sPark} : LocationTypeChange(v)
    \/ ResetClick
    \/ \E key \in AppKeys : KeyDown(key)
    \/ toggleHeatmap
    \/ \E i \in Inst : GenerationTimeout(i)

SpecHeat == InitHeat /\ [][NextHeat]_vars

\* a callback given to setTimeout is run
SpecHeatLive == SpecHeat /\ WF_vars(\E i \in Inst : GenerationTimeout(i))

\* the filter controls of one map, with text typed key by key
InitQuery ==
    /\ dataset \in QueryDatasets
    /\ PageInit(TRUE)

NextQuery ==
    \/ \E i \in Inst : MapLoad(i)
    \/ \E i \in Inst : FetchDone(i)
    \/ \E key \in TypedKeys : TypeKey(key)
    \/ \E v \in {Empty, qLib} : SearchInput(v)
    \/ \E v \in StatusOptions : StatusChange(v)
    \/ \E v \in AccessibilityOptions : AccessibilityChange(v)
    \/ \E v \in LocationTypeOptions : LocationTypeChange(v)
    \/ ResetClick
    \/ \E key \in AppKeys : KeyDown(key)

SpecQuery == InitQuery /\ [][NextQuery]_vars

\* ------------------------------------------------------------------ claims
loaded(i) == phase[i] = "loaded"
store(i) == allRestroomData[i].features
missing(x) == x = Undefined \/ x = Null
occurrences(seq, x) == Cardinality({k \in 1..Len(seq) : seq[k] = x})

\* the text a search is matched against, as the specification words it
textOr(x) == IF missing(x) THEN << >> ELSE x
searchText(props) ==
    toLowerCase(textOr(props.facility_name) \o <<" ">> \o textOr(props.operator)
                \o <<" ">> \o textOr(props.location_type))
isSubstring(s, text) ==
    \E k \in 1..(Len(text) - Len(s) + 1) :
        \A m \in 1..Len(s) : text[k + m - 1] = s[m]

searchPasses(props, q) == q.search = << >> \/ isSubstring(q.search, searchText(props))
statusPasses(props, q) == q.status = sAll \/ q.status = props.status
accessibilityPasses(props, q) ==
    q.accessibility = sAll \/ q.accessibility = props.accessibility
locationTypePasses(props, q) ==
    q.locationType = sAll \/ q.locationType = props.location_type
allFourPass(props, q) ==
    /\ searchPasses(props, q)
    /\ statusPasses(props, q)
    /\ accessibilityPasses(props, q)
    /\ locationTypePasses(props, q)

\* out is R with some elements left out, order kept
isSubsequence(out, R) ==
    \E f \in [1..Len(out) -> 1..Len(R)] :
        /\ \A m \in 1..Len(out) : out[m] = R[f[m]]
        /\ \A m, n \in 1..Len(out) : m < n => f[m] < f[n]

\* C1: the records shown are exactly the records of the store that pass all
\* four predicates, each as often as it is in the store; a record whose facet
\* value is missing is shown under no value of that facet but "all".
C1_KeepsIffAllFourPass ==
    \A i \in Inst : loaded(i) =>
        LET q == currentFilters[i] IN
        /\ \A k \in 1..Len(store(i)) :
              LET rec == store(i)[k] IN
              /\ allFourPass(rec.properties, q) =>
                    occurrences(shown[i], rec) = occurrences(store(i), rec)
              /\ ~allFourPass(rec.properties, q) => occurrences(shown[i], rec) = 0
              /\ missing(rec.properties.status) /\ q.status # sAll =>
                    occurrences(shown[i], rec) = 0
              /\ missing(rec.properties.accessibility) /\ q.accessibility # sAll =>
                    occurrences(shown[i], rec) = 0
              /\ missing(rec.properties.location_type) /\ q.locationType # sAll =>
                    occurrences(shown[i], rec) = 0
        /\ \A m \in 1..Len(shown[i]) : occurrences(store(i), shown[i][m]) > 0

C1_Witness ==
    /\ loaded(1)
    /\ store(1) = <<recBare, recCentralPark>>
    /\ currentFilters[1].status = sOperational
    /\ currentFilters[1].search = qR
    /\ shown[1] = <<recCentralPark>>

\* C2: whatever events have run, the data last pushed to the source
\* 'restrooms' of a loaded closure is the filter of its store under its
\* current filters.
C2_ShownIsFilterOfCurrent ==
    \A i \in Inst : loaded(i) =>
        shown[i] = arrayFilter(store(i), currentFilters[i])

C2_Witness ==
    /\ loaded(1)
    /\ currentFilters[1].search = Empty
    /\ controls.search = Empty
    /\ currentFilters[1].locationType = sLibrary
    /\ Len(store(1)) = 2
    /\ Len(shown[1]) = 1

\* C3: the records shown are a subsequence of the store: order kept, nothing
\* more often than in the store.
C3_StableSubsequence ==
    \A i \in Inst : loaded(i) =>
        /\ isSubsequence(shown[i], store(i))
        /\ \A m \in 1..Len(shown[i]) :
              occurrences(shown[i], shown[i][m]) <= occurrences(store(i), shown[i][m])

C3_Witness ==
    /\ loaded(1)
    /\ currentFilters[1].search = qR
    /\ store(1) = <<recMainLibrary, recCentralPark>>
    /\ shown[1] = <<recMainLibrary, recCentralPark>>

\* C4: filtering what is shown again, under the same filters, changes nothing.
C4_Idempotent ==
    \A i \in Inst : loaded(i) =>
        applyFilters(shown[i], currentFilters[i]).setData = shown[i]

C4_Witness ==
    /\ loaded(1)
    /\ currentFilters[1].accessibility = sFullyAccessible
    /\ Len(store(1)) = 2
    /\ shown[1] = <<recCentralPark>>

\* q2 is q with one facet moved from "all" to a value, or with a search text
\* that contains the search text of q
tightened(q, q2) ==
    \/ /\ q.status = sAll /\ q2.status # sAll
       /\ q2 = [q EXCEPT !.status = q2.status]
    \/ /\ q.accessibility = sAll /\ q2.accessibility # sAll
       /\ q2 = [q EXCEPT !.accessibility = q2.accessibility]
    \/ /\ q.locationType = sAll /\ q2.locationType # sAll
       /\ q2 = [q EXCEPT !.locationType = q2.locationType]
    \/ /\ q2.search # q.search
       /\ q.search = << >> \/ isSubstring(q.search, q2.search)
       /\ q2 = [q EXCEPT !.search = q2.search]

\* C5: a step that tightens one facet of the filters shows a subset of what
\* was shown, so no more records.
C5_Monotone ==
    [][\A i \in Inst :
          loaded(i) /\ tightened(currentFilters[i], currentFilters[i]') =>
              /\ isSubsequence(shown[i]', shown[i])
              /\ Len(shown[i]') <= Len(shown[i])]_vars

C5_Witness ==
    /\ loaded(1)
    /\ currentFilters[1] = [defaultFilters EXCEPT !.search = qLibrary,
                                                  !.locationType = sLibrary]
    /\ store(1) = <<recCentralPark, recMainLibrary>>
    /\ shown[1] = <<recMainLibrary>>

\* C6: under a search text alone, a record is shown exactly when the search
\* text is a substring of the lower-cased name, operator and location type
\* joined by single spaces, a missing one being the empty text; "Central
\* Park", a Park without operator, is not shown for "library".
C6_SearchPredicate ==
    \A i \in Inst :
        loaded(i) /\ currentFilters[i].search # << >> =>
            /\ \A m \in 1..Len(shown[i]) :
                  isSubstring(currentFilters[i].search,
                              searchText(shown[i][m].properties))
            /\ [currentFilters[i] EXCEPT !.search = << >>] = defaultFilters =>
                  \A k \in 1..Len(store(i)) :
                      isSubstring(currentFilters[i].search,
                                  searchText(store(i)[k].properties))
                      => occurrences(shown[i], store(i)[k]) > 0
            /\ currentFilters[i].search = qLibrary =>
                  occurrences(shown[i], recCentralPark) = 0

C6_Witness ==
    /\ loaded(1)
    /\ store(1) = <<recCentralPark>>
    /\ currentFilters[1] = [defaultFilters EXCEPT !.search = qLibrary]
    /\ shown[1] = << >>

\* C7: under the default filters everything is shown, in the order of the
\* store; of an empty store nothing is shown, whatever the filters.
C7_DefaultShowsAll ==
    \A i \in Inst : loaded(i) =>
        /\ currentFilters[i] = defaultFilters => shown[i] = store(i)
        /\ store(i) = << >> => shown[i] = << >>

C7_Witness ==
    /\ loaded(1)
    /\ controls.search = Empty
    /\ currentFilters[1] = defaultFilters
    /\ shown[1] = <<recBare, recMainLibrary>>

\* C8: the four statistics are the number of records shown and the numbers
\* of them that are Operational, Fully Accessible and in a Park; all four
\* are 0 when nothing is shown; for the one record of Scenario A they are 1.
C8_StatisticsOfShown ==
    listeners # << >> =>
        LET out == shown[lastListener]
            n(P(_)) == Cardinality({k \in 1..Len(out) : P(out[k].properties)})
        IN  /\ stats.total = Len(out)
            /\ stats.operationalCount = n(LAMBDA p : p.status = sOperational)
            /\ stats.accessibleCount =
                  n(LAMBDA p : p.accessibility = sFullyAccessible)
            /\ stats.parkCount = n(LAMBDA p : p.location_type = sPark)
            /\ out = << >> =>
                  stats = [total |-> 0, operationalCount |-> 0,
                           accessibleCount |-> 0, parkCount |-> 0]
            /\ out = <<recCentralPark>> =>
                  stats = [total |-> 1, operationalCount |-> 1,
                           accessibleCount |-> 1, parkCount |-> 1]

C8_Witness ==
    /\ loaded(1)
    /\ store(1) = <<recCentralPark, recMainLibrary>>
    /\ shown[1] = << >>
    /\ stats.total = 0
    /\ stats.parkCount = 0

\* the distances of a grid point to the records whose coordinates are a
\* pair of finite numbers
validDistances(features, lat, lng) ==
    {calculateFastDistanceSq(lat, lng, features[k].geometry.coordinates.lat,
                             features[k].geometry.coordinates.lng) :
        k \in {m \in 1..Len(features) : features[m].geometry.coordinates.tag = "pt"}}

nearestValid(features, lat, lng) ==
    LET D == validDistances(features, lat, lng) IN
    IF D = {} THEN Infinity ELSE CHOOSE d \in D : \A e \in D : d <= e

\* C9: a record without finite coordinates is left out of the scan and makes
\* no callback fail: once a generation has run, no exception was raised and
\* every cell holds the distance to the nearest record with valid coordinates.
C9_InvalidCoordinatesIgnored ==
    \A i \in Inst :
        /\ ~uncaught[i]
        /\ ~heatmapData[i].isNull =>
              \A n \in 1..Len(heatmapData[i].features) :
                  LET cell == heatmapData[i].features[n] IN
                  cell.minDistanceSq = nearestValid(store(i), cell.lat, cell.lng)

\* C10: at most one generation timer is pending, over all closures of the
\* page, and while one is pending the button is disabled.
C10_OneGenerationInFlight ==
    /\ \A i \in Inst : pendingGen[i] <= 1
    /\ \A i, j \in Inst : i # j => pendingGen[i] = 0 \/ pendingGen[j] = 0
    /\ \A i \in Inst : pendingGen[i] > 0 => button.disabled

\* C11: heatmapData of a closure is written once in the life of its page: it
\* changes only when a generation callback runs, a generation callback runs
\* only while it is null, and once it is set no step changes or clears it.
\* A reload of the page is a restart and starts the count anew.
C11_GridWrittenOnce ==
    [][\/ Reload
       \/ \A i \in Inst :
             /\ heatmapData[i]' # heatmapData[i] => pendingGen[i]' < pendingGen[i]
             /\ pendingGen[i]' < pendingGen[i] => heatmapData[i].isNull
             /\ ~heatmapData[i].isNull => heatmapData[i]' = heatmapData[i]]_vars

\* C12: a click that disables the button and schedules a generation is
\* followed by a state with the button enabled, heatmapData set and the heat
\* layer on the map, whatever the records are.
C12_ToggleOnCompletes ==
    \A i \in Inst :
        (pendingGen[i] > 0 /\ button.disabled)
            ~> (~button.disabled /\ ~heatmapData[i].isNull /\ heatLayer[i])

\* C13: the grid is made of the whole store, whatever the filters were at
\* the click, at the callback or since: every cell holds the distance to the
\* nearest record of the store with valid coordinates and the intensity of
\* that distance, also while the filters show fewer records.
C13_GridOfWholeStore ==
    \A i \in Inst : ~heatmapData[i].isNull =>
        \A n \in 1..Len(heatmapData[i].features) :
            LET cell == heatmapData[i].features[n] IN
            /\ cell.minDistanceSq = nearestValid(store(i), cell.lat, cell.lng)
            /\ cell.intensity = intensity(nearestValid(store(i), cell.lat, cell.lng))

C13_Witness ==
    /\ loaded(1)
    /\ store(1) = <<recCentralPark, recMainLibrary>>
    /\ currentFilters[1].search = <<"l","i","b">>
    /\ shown[1] = <<recMainLibrary>>
    /\ ~heatmapData[1].isNull
    /\ heatmapData[1].features[1].minDistanceSq = 0

\* no record of the store has a pair of finite numbers as coordinates
noneValid(features) ==
    \A k \in 1..Len(features) : features[k].geometry.coordinates.tag # "pt"

one == [floor |-> intensityScale, exact |-> TRUE]
zero == [floor |-> 0, exact |-> TRUE]

\* C14: an empty store makes nothing fail: nothing is shown, the four
\* statistics are 0, no generation callback ends with an exception and the
\* grid has gridSize * gridSize cells, each of intensity exactly 1; the grid
\* is the same for a store none of whose records has valid coordinates.
C14_EmptyStoreAllMaximal ==
    \A i \in Inst : loaded(i) =>
        /\ store(i) = << >> =>
              /\ shown[i] = << >>
              /\ lastListener = i =>
                    stats = [total |-> 0, operationalCount |-> 0,
                             accessibleCount |-> 0, parkCount |-> 0]
        /\ noneValid(store(i)) =>
              /\ ~uncaught[i]
              /\ ~heatmapData[i].isNull =>
                    /\ Len(heatmapData[i].features) = gridSize * gridSize
                    /\ \A n \in 1..Len(heatmapData[i].features) :
                          /\ heatmapData[i].features[n].minDistanceSq = Infinity
                          /\ heatmapData[i].features[n].intensity = one

\* C15: a grid has gridSize * gridSize cells; the cell at index
\* i * gridSize + j (counted from 0) is at south + i * latStep and
\* west + j * lngStep, the steps being the sides of the box divided by
\* gridSize, for 0 <= i, j < gridSize; no cell is on the north or east edge.
C15_GridOrder ==
    \A inst \in Inst : ~heatmapData[inst].isNull =>
        LET cells == heatmapData[inst].features IN
        /\ Len(cells) = gridSize * gridSize
        /\ \A i, j \in 0..(gridSize - 1) :
              LET cell == cells[i * gridSize + j + 1] IN
              /\ cell.lat = nycBounds.south
                    + i * ((nycBounds.north - nycBounds.south) \div gridSize)
              /\ cell.lng = nycBounds.west
                    + j * ((nycBounds.east - nycBounds.west) \div gridSize)
              /\ cell.lat < nycBounds.north
              /\ cell.lng < nycBounds.east

C15_Witness ==
    /\ ~heatmapData[1].isNull
    /\ Len(heatmapData[1].features) = gridSize * gridSize
    /\ heatmapData[1].features[2].lat = nycBounds.south
    /\ heatmapData[1].features[2].lng > nycBounds.west
    /\ heatmapData[1].features[gridSize + 1].lat > nycBounds.south
    /\ heatmapData[1].features[gridSize + 1].lng = nycBounds.west

\* an intensity, kept rounded down to steps of 1/intensityScale, is a number
\* of at least 0 and at most 1
withinUnit(v) ==
    /\ v.floor # Infinity
    /\ 0 <= v.floor
    /\ v.floor < intensityScale \/ (v.floor = intensityScale /\ v.exact)

\* C16: the intensity of every cell of every grid is a number from 0 to 1.
C16_IntensityBounded ==
    \A i \in Inst : ~heatmapData[i].isNull =>
        \A n \in 1..Len(heatmapData[i].features) :
            withinUnit(heatmapData[i].features[n].intensity)

C16_Witness ==
    /\ ~heatmapData[1].isNull
    /\ \E n, m \in 1..Len(heatmapData[1].features) :
          LET near == heatmapData[1].features[n]
              far == heatmapData[1].features[m]
          IN  /\ near.minDistanceSq > 0
              /\ near.intensity.floor > 0
              /\ near.intensity.floor < intensityScale
              /\ far.minDistanceSq > maxDistance * maxDistance
              /\ far.intensity = one

\* C17: a cell whose nearest record is maxDistance or more away, or that has
\* no nearest record, has intensity exactly 1; a cell at distance 0 of a
\* record has intensity exactly 0.
C17_Saturation ==
    /\ intensity(maxDistance * maxDistance) = one
    /\ \A i \in Inst : ~heatmapData[i].isNull =>
          \A n \in 1..Len(heatmapData[i].features) :
              LET cell == heatmapData[i].features[n] IN
              /\ cell.minDistanceSq = Infinity
                 \/ cell.minDistanceSq >= maxDistance * maxDistance
                    => cell.intensity = one
              /\ cell.minDistanceSq = 0 => cell.intensity = zero

C17_Witness ==
    /\ ~heatmapData[1].isNull
    /\ \E n, m \in 1..Len(heatmapData[1].features) :
          LET at == heatmapData[1].features[n]
              far == heatmapData[1].features[m]
          IN  /\ at.minDistanceSq = 0
              /\ at.intensity = zero
              /\ far.minDistanceSq >= maxDistance * maxDistance
              /\ far.minDistanceSq < 4 * maxDistance * maxDistance
              /\ far.intensity = one

\* d1 <= d2 for two minDistance values, Infinity being the largest
notFarther(d1, d2) == d2 = Infinity \/ (d1 # Infinity /\ d1 <= d2)

\* v1 <= v2 for two intensities, as far as the steps of 1/intensityScale tell
notAbove(v1, v2) ==
    \/ v1.floor < v2.floor
    \/ v1.floor = v2.floor /\ (v2.exact => v1.exact)

\* C18: of two cells the one whose nearest record is not farther away has
\* the intensity that is not larger.
C18_IntensityMonotone ==
    \A i \in Inst : ~heatmapData[i].isNull =>
        \A n, m \in 1..Len(heatmapData[i].features) :
            LET c1 == heatmapData[i].features[n]
                c2 == heatmapData[i].features[m]
            IN  notFarther(c1.minDistanceSq, c2.minDistanceSq)
                    => notAbove(c1.intensity, c2.intensity)

C18_Witness ==
    /\ ~heatmapData[1].isNull
    /\ \E n, m \in 1..Len(heatmapData[1].features) :
          LET c1 == heatmapData[1].features[n]
              c2 == heatmapData[1].features[m]
          IN  /\ 0 < c1.minDistanceSq
              /\ c1.minDistanceSq < c2.minDistanceSq
              /\ c2.minDistanceSq < maxDistance * maxDistance
              /\ c1.intensity.floor < c2.intensity.floor

\* C19: the store of a loaded closure holds the records of the geojson, in
\* their order and with their values, and no step changes it.
C19_StoreNeverMutated ==
    [][\A i \in Inst : loaded(i) =>
          /\ allRestroomData[i] = some(dataset)
          /\ allRestroomData[i]' = allRestroomData[i]]_vars

C19_Witness ==
    /\ loaded(1)
    /\ store(1) = <<recCentralPark, recMainLibrary>>
    /\ store(1) = dataset
    /\ currentFilters[1].locationType = sPark
    /\ shown[1] = <<recCentralPark>>
    /\ ~heatmapData[1].isNull
    /\ ~isHeatmapVisible[1]

abs(x) == IF x < 0 THEN -x ELSE x

\* the grid points and the records with valid coordinates of closure i
points(i) ==
    {pt(heatmapData[i].features[n].lng, heatmapData[i].features[n].lat) :
        n \in 1..Len(heatmapData[i].features)}
    \cup {store(i)[k].geometry.coordinates :
            k \in {m \in 1..Len(store(i)) :
                     store(i)[m].geometry.coordinates.tag = "pt"}}

distanceSq(a, b) == calculateFastDistanceSq(a.lat, a.lng, b.lat, b.lng)

\* C20: the distance of a point to itself is 0, the distance is the same in
\* both directions, and it grows with the difference of the latitudes and
\* with the difference of the longitudes, the other being the same; with one
\* record at the south-west corner the last cell of the grid, the
\* north-east-most, is farther from its nearest record than the first,
\* the south-west-most, which is at distance 0.
C20_FastDistance ==
    \A i \in Inst : ~heatmapData[i].isNull =>
        /\ \A a, b, c \in points(i) :
              /\ distanceSq(a, a) = 0
              /\ distanceSq(a, b) = distanceSq(b, a)
              /\ distanceSq(a, b) =
                    (111 * (b.lat - a.lat)) * (111 * (b.lat - a.lat))
                    + (85 * (b.lng - a.lng)) * (85 * (b.lng - a.lng))
              /\ /\ abs(b.lng - a.lng) = abs(c.lng - a.lng)
                 /\ abs(b.lat - a.lat) < abs(c.lat - a.lat)
                 => distanceSq(a, b) < distanceSq(a, c)
              /\ /\ abs(b.lat - a.lat) = abs(c.lat - a.lat)
                 /\ abs(b.lng - a.lng) < abs(c.lng - a.lng)
                 => distanceSq(a, b) < distanceSq(a, c)
        /\ store(i) = <<recCentralPark>> =>
              LET cells == heatmapData[i].features IN
              /\ cells[1].minDistanceSq = 0
              /\ cells[Len(cells)].minDistanceSq > cells[1].minDistanceSq

C20_Witness ==
    /\ store(1) = <<recCentralPark>>
    /\ recCentralPark.geometry.coordinates = pt(nycBounds.west, nycBounds.south)
    /\ ~heatmapData[1].isNull
    /\ heatmapData[1].features[1].minDistanceSq = 0
    /\ heatmapData[1].features[gridSize * gridSize].lat > nycBounds.south
    /\ heatmapData[1].features[gridSize * gridSize].lng > nycBounds.west
    /\ heatmapData[1].features[gridSize * gridSize].minDistanceSq > 0

\* C21: the search text of currentFilters is its own lower-casing, whether
\* an 'input', a reset or escape wrote it, and each of the three facets is
\* "all" or a value of its select.
C21_QueryStateNormalized ==
    \A i \in Inst :
        /\ currentFilters[i].search = toLowerCase(currentFilters[i].search)
        /\ \A k \in 1..Len(currentFilters[i].search) :
              \A u \in 1..Len(Upper) : currentFilters[i].search[k] # Upper[u]
        /\ currentFilters[i].status \in {sAll} \cup StatusOptions
        /\ currentFilters[i].accessibility \in {sAll} \cup AccessibilityOptions
        /\ currentFilters[i].locationType \in {sAll} \cup LocationTypeOptions

C21_Witness ==
    /\ loaded(1)
    /\ controls.search = <<"L","a">>
    /\ currentFilters[1].search = <<"l","a">>
    /\ currentFilters[1].status = sOperational
    /\ currentFilters[1].locationType = sLibrary

\* between two handlers: the layer is on the map of closure i exactly when
\* its isHeatmapVisible is true
layerIffVisible(i) == heatLayer[i] <=> isHeatmapVisible[i]
visibleHasData(i) == isHeatmapVisible[i] => ~heatmapData[i].isNull
pendingNotVisible(i) ==
    pendingGen[i] > 0 => ~isHeatmapVisible[i] /\ ~heatLayer[i]

\* a toggle of closure i that ran to its end in this step: a click that shows
\* or hides at once, or the timer callback of a generation that did not throw
completedToggle(i) ==
    \/ toggleHeatmap /\ InListeners(i) /\ pendingGen[i]' = pendingGen[i]
    \/ GenerationTimeout(i) /\ ~generated(allRestroomData[i].features).threw

\* C22: between handlers the heat layer is on the map exactly when
\* isHeatmapVisible is true, and then heatmapData is set; while a generation
\* is pending isHeatmapVisible is false and the layer is off the map; a
\* toggle that is completed has turned isHeatmapVisible round.
C22_LayerIffVisible ==
    [][\A i \in Inst :
          /\ layerIffVisible(i) /\ layerIffVisible(i)'
          /\ visibleHasData(i) /\ visibleHasData(i)'
          /\ pendingNotVisible(i) /\ pendingNotVisible(i)'
          /\ completedToggle(i) => isHeatmapVisible[i]' = ~isHeatmapVisible[i]]_vars

\* the key is typed into #searchFacility and afterwards every listening
\* closure has the text with the key's character at its end, in lower case,
\* as its search facet and its three other facets as before
typedIntoSearch(key) ==
    TypeKey(key) =>
        \A i \in Inst :
            InListeners(i) =>
                /\ currentFilters[i]'.search = toLowerCase(controls.search \o key)
                /\ currentFilters[i]'.status = currentFilters[i].status
                /\ currentFilters[i]'.accessibility = currentFilters[i].accessibility
                /\ currentFilters[i]'.locationType = currentFilters[i].locationType

\* C23: every key pressed while search text is entered puts its character,
\* in lower case, into currentFilters.search and leaves the status,
\* accessibility and locationType facets as they were.
C23_TypingChangesSearchOnly ==
    [][\A key \in TypedKeys : typedIntoSearch(key)]_vars

\* every listening closure has the default filters and shows its whole store
allFiltersReset ==
    \A i \in Inst :
        InListeners(i) =>
            /\ currentFilters[i]' = defaultFilters
            /\ shown[i]' = store(i)'

\* every listening closure has an empty search text and its three other
\* filters as before
onlySearchEmptied ==
    \A i \in Inst :
        InListeners(i) =>
            currentFilters[i]' = [currentFilters[i] EXCEPT !.search = Empty]

\* C24: the reset button and the key r set the four filters of QueryState to
\* their defaults and the whole store is shown; the key escape empties the
\* search text and leaves the three other filters as they are; the key f
\* leaves QueryState and the records shown as they are; none of them changes
\* heatmapData or isHeatmapVisible.
C24_ResetEscapeFitFrames ==
    [][/\ ResetClick \/ KeyDown(<<"r">>) \/ KeyDown(<<"R">>) => allFiltersReset
       /\ KeyDown(<<"E","s","c","a","p","e">>) => onlySearchEmptied
       /\ KeyDown(<<"f">>) \/ KeyDown(<<"F">>) =>
             UNCHANGED <<currentFilters, shown>>
       /\ \/ ResetClick
          \/ \E key \in AppKeys : KeyDown(key)
          => UNCHANGED <<heatmapData, isHeatmapVisible>>]_vars

C24_Witness ==
    /\ loaded(1)
    /\ store(1) = <<recCentralPark, recMainLibrary>>
    /\ controls.search = Empty
    /\ currentFilters[1] = [defaultFilters EXCEPT !.locationType = sPark]
    /\ shown[1] = <<recCentralPark>>
    /\ isHeatmapVisible[1]
    /\ ~heatmapData[1].isNull

\* one click on #submitToken with value in the field: a valid token is stored
\* trimmed and one more map is initialised; any other value leaves the
\* stored token and the number of maps as they are
oneClickOneMap(value) ==
    SubmitClick(value) =>
        IF validToken(value)
        THEN /\ storedToken' = trim(value)
             /\ nInst' = nInst + 1
        ELSE /\ storedToken' = storedToken
             /\ nInst' = nInst

\* C25: one click on the submit button with a valid token stores the token
\* and calls initializeMap exactly once, whatever the number of 'Change
\* Token' round trips before it; a click with an invalid token stores nothing
\* and calls initializeMap zero times.
C25_SubmitInitializesOnce ==
    [][\A value \in TokenInputs : oneClickOneMap(value)]_vars

====
